---- MODULE Spec2Model ----
(***************************************************************************)
(* Univariate conditional-logit pipelines of kbaroutis/vhl-rd-clogit:      *)
(*   variant "A" = src/code/clogit.py                                      *)
(*   variant "B" = src/code/clogit_triplets_v10.py                         *)
(* main(fp_in, fp_out) is modelled as the state machine                    *)
(*   load_clean -> keep_strata / triplets_only -> one loop iteration per   *)
(*   registry entry (fit_clogit + append) -> DataFrame/round/sort/to_csv.  *)
(* A DataFrame is a sequence of rows; a row is a function from column      *)
(* names (and "index", the pandas index label) to cells.  Cells are        *)
(* integers; NaN and the text cells of the CSV are sentinel integers.      *)
(* statsmodels' ConditionalLogit(...).fit is an opaque collaborator: it    *)
(* either raises or returns (coefficient, standard error, p-value).        *)
(***************************************************************************)
EXTENDS Integers, Sequences, FiniteSets, TLC

VARIABLES variant, cols, csv, df, strata, pc, i, rows, work, fitCalls,
          modelFits, out, writes, err

vars == <<variant, cols, csv, df, strata, pc, i, rows, work, fitCalls,
          modelFits, out, writes, err>>

----------------------------------------------------------------------------
(* Cells *)

\* np.nan: the missing marker (also what read_csv gives for an empty cell)
NaN == -1000
\* text cells of the CSV: the sentinel strings "Na"/"NA"/"na" and any other
\* text that is not a number
StrNa == -1001
StrBad == -1002

\* Combined_treatments cells are held in units of 1/Scale, so that
\* fractional treatment counts are representable; every other column holds
\* plain integers.
Scale == 2

isna(x) == x = NaN

\* pd.to_numeric(col.replace({"Na":nan,"NA":nan,"na":nan}), errors="coerce")
to_numeric(x) == IF x \in {StrNa, StrBad, NaN} THEN NaN ELSE x

\* mutant of cat3: the bucket boundary at 2 excluded
cat3_strict(x) ==
    IF isna(x) THEN NaN
    ELSE IF x = 0 THEN 0
    ELSE IF x < 2 * Scale THEN 1
    ELSE 2

\* cat3(x), x in units of 1/Scale
cat3(x) ==
    IF isna(x) THEN NaN
    ELSE IF x = 0 THEN 0
    ELSE IF x <= 2 * Scale THEN 1
    ELSE 2

----------------------------------------------------------------------------
(* Registries *)

PREDICTORS_A == <<
    <<"treat_cat",     "Any ocular treatment (ordinal 0/1/2)">>,
    <<"RCC",           "Renal-cell carcinoma present">>,
    <<"Pancreas_Cyst", "Pancreatic cysts present">>,
    <<"HighRCH",       "High RCH burden (>= 3 lesions)">>,
    <<"Spinal_HB",     "Spinal hemangioblastoma present">>,
    <<"CNS_HB",        "CNS hemangioblastoma present">>,
    <<"Family",        "Positive family history">>,
    <<"Pheo",          "Pheochromocytoma present">>,
    <<"Renal_Cysts",   "Renal cysts present">>,
    <<"NETs_pancreas", "Pancreatic NETs present">>,
    <<"Pancreas_CA",   "Pancreatic carcinoma present">> >>

PREDICTORS_B == <<
    <<"treat_cat",           "Any ocular treatment (ordinal 0/1/2)">>,
    <<"RCC_0_yes",           "Renal-cell carcinoma present">>,
    <<"Pancreas_Cyst_0_yes", "Pancreatic cysts present">>,
    <<"HighRCH",             "High RCH burden (>= 3 lesions)">>,
    <<"Spinal_HB_yes_no",    "Spinal hemangioblastoma present">>,
    <<"CNS_HB_0_yes",        "CNS hemangioblastoma present">> >>

\* the model runs the first NPred entries of the registry
NPred == 2

Min(a, b) == IF a < b THEN a ELSE b

PREDICTORS(v) ==
    LET full == IF v = "A" THEN PREDICTORS_A ELSE PREDICTORS_B
    IN  SubSeq(full, 1, Min(NPred, Len(full)))

Keys(v) == {PREDICTORS(v)[n][1] : n \in 1..Len(PREDICTORS(v))}

DerivedCols == {"treat_cat", "HighRCH"}

\* the columns a well-formed input file has
InputCols(v) ==
    {"match_id", "case", "Combined_treatments", "RCH_at_baseline"}
        \cup (Keys(v) \ DerivedCols)

----------------------------------------------------------------------------
(* Input tables: what pd.read_csv can return *)

\* largest stratum of an input table
MaxSize == 4

StratumIds == {1, 2}
\* a second block of one row stands for a row whose match_id cell is empty
Sizes(s) == IF s = 1 THEN 0..MaxSize ELSE {0, 1, 2, 3}

\* the outcome column of a stratum of n rows, by position k
CasePatterns(s) == IF s = 1 THEN {"first", "none", "two", "nanSecond"}
                   ELSE {"first", "none"}

CaseAt(cp, k) ==
    CASE cp = "first"     -> IF k = 1 THEN 1 ELSE 0
      [] cp = "none"      -> 0
      [] cp = "two"       -> IF k <= 2 THEN 1 ELSE 0
      [] cp = "nanSecond" -> IF k = 1 THEN 1 ELSE IF k = 2 THEN NaN ELSE 0

\* a 0/1 covariate column, by stratum s, position k and outcome c
BinPatterns == {"zeros", "alt", "s1alt", "nanCase", "naS1"}

BinAt(bp, s, k, c) ==
    CASE bp = "zeros"   -> 0
      [] bp = "alt"     -> k % 2
      [] bp = "s1alt"   -> IF s = 1 THEN k % 2 ELSE 0
      [] bp = "nanCase" -> IF c = 1 THEN NaN ELSE k % 2
      [] bp = "naS1"    -> IF s = 1 THEN StrNa ELSE k % 2

\* the Combined_treatments column (units of 1/Scale)
CTPatterns == {"zeros", "ramp", "oneTwo", "odd"}

CTAt(tp, s, k) ==
    CASE tp = "zeros"  -> 0
      [] tp = "ramp"   -> (k - 1) * Scale
      [] tp = "oneTwo" -> IF k % 2 = 1 THEN Scale ELSE 2 * Scale
      [] tp = "odd"    -> CASE k = 1 -> -1
                            [] k = 2 -> 2 * Scale + 1
                            [] k = 3 -> IF s = 1 THEN StrBad ELSE NaN
                            [] OTHER -> 1

RCHPatterns == {"nanCase"}

PatternsOf(c) ==
    CASE c = "Combined_treatments" -> CTPatterns
      [] c = "RCH_at_baseline"     -> RCHPatterns
      [] OTHER                     -> BinPatterns

\* one cell of the file (mid: the block's match_id cell)
Cell(c, mid, s, k, cp, pat) ==
    CASE c = "match_id"            -> mid
      [] c = "case"                -> CaseAt(cp, k)
      [] c = "Combined_treatments" -> CTAt(pat, s, k)
      [] OTHER                     -> BinAt(pat, s, k, CaseAt(cp, k))

\* rows of stratum s (n rows), index labels starting after `base`
Block(header, s, n, base, cp, pat) ==
    [k \in 1..n |->
        [c \in header \cup {"index"} |->
            IF c = "index" THEN base + k - 1
            ELSE Cell(c, IF s = 2 /\ n = 1 THEN NaN ELSE s, s, k, cp,
                      IF c \in DOMAIN pat THEN pat[c] ELSE "zeros")]]

\* the file: stratum 1's rows, then stratum 2's
Table(header, n, cp, pat) ==
    Block(header, 1, n[1], 0, cp[1], pat) \o Block(header, 2, n[2], n[1], cp[2], pat)

PatCols(v) == InputCols(v) \ {"match_id", "case"}

----------------------------------------------------------------------------
(* Frames *)

Range(f) == {f[n] : n \in DOMAIN f}

\* identifier columns are left as read (c.lower() in {...})
IdCols == {"match_id", "case", "subject_id"}

\* columns of the frame load_clean returns, for a file with this header
FrameCols(header) == header \cup DerivedCols

\* load_clean: coerce every non-identifier column, derive treat_cat, HighRCH
LoadRow(r) ==
    [c \in DOMAIN r \cup DerivedCols |->
        CASE c = "treat_cat" -> cat3(to_numeric(r["Combined_treatments"]))
          [] c = "HighRCH"   -> to_numeric(r["RCH_at_baseline"])
          [] c = "index"     -> r[c]
          [] c \in IdCols    -> r[c]
          [] OTHER           -> to_numeric(r[c])]

load_clean(file) == [n \in DOMAIN file |-> LoadRow(file[n])]

\* groupby("match_id"): keys are the non-missing identifiers
GroupKeys(frame) == {r["match_id"] : r \in Range(frame)} \ {NaN}

Group(frame, g) == SelectSeq(frame, LAMBDA r : r["match_id"] = g)

\* Series.sum(): missing values are skipped
RECURSIVE Sum(_)
Sum(xs) ==
    IF xs = <<>> THEN 0
    ELSE (IF isna(Head(xs)) THEN 0 ELSE Head(xs)) + Sum(Tail(xs))

Column(frame, c) == [n \in DOMAIN frame |-> frame[n][c]]

\* mutant of KeepGroup: either condition suffices
KeepGroupOr(g) == (Len(g) = 3) \/ (Sum(Column(g, "case")) = 1)

\* lambda g: (len(g)==3) and (g["case"].sum()==1)
KeepGroup(g) == (Len(g) = 3) /\ (Sum(Column(g, "case")) = 1)

\* groupby(...).filter(f): the rows of the groups f accepts, in file order
GroupFilter(frame) ==
    SelectSeq(frame, LAMBDA r :
        /\ r["match_id"] \in GroupKeys(frame)
        /\ KeepGroup(Group(frame, r["match_id"])))

keep_strata(frame) == GroupFilter(frame)

triplets_only(frame) == GroupFilter(frame)

\* the filter evaluates g["case"] only for a group of 3 rows (short-circuit and)
FilterReadsCase(frame) ==
    \E g \in GroupKeys(frame) : Len(Group(frame, g)) = 3

\* df[["case","match_id",pred]].dropna()
Dropna(frame, pred) ==
    LET sel == [n \in DOMAIN frame |->
                  [c \in {"index", "case", "match_id", pred} |-> frame[n][c]]]
    IN  SelectSeq(sel, LAMBDA r :
            ~isna(r["case"]) /\ ~isna(r["match_id"]) /\ ~isna(r[pred]))

\* groupby("match_id")[pred].nunique() of one group
NUnique(d, g, pred) == Cardinality({r[pred] : r \in Range(Group(d, g))})

\* mutant of Varies: a stratum with a single value counts as varying
VariesAtLeastOne(d, pred) == \E g \in GroupKeys(d) : NUnique(d, g, pred) > 0

\* (d.groupby("match_id")[pred].nunique() > 1).any()
Varies(d, pred) == \E g \in GroupKeys(d) : NUnique(d, g, pred) > 1

\* mutant of StrataCount: the rows are counted, not the strata
RowCount(d) == Len(d)

\* d["match_id"].nunique()
StrataCount(d) == Cardinality(GroupKeys(d))

\* mutant of TableAfterFit: dropna applied to the caller's frame in place
TableDroppedInPlace(frame, pred) ==
    SelectSeq(frame, LAMBDA r :
        ~isna(r["case"]) /\ ~isna(r["match_id"]) /\ ~isna(r[pred]))

\* fit_clogit builds d as a new frame: the caller's frame is as it was
TableAfterFit(frame, pred) == frame

----------------------------------------------------------------------------
(* Numbers of a fit *)

\* exp(x) is held as a numerator over 2^FracBits
FracBits == 12

RECURSIVE Pow2(_)
Pow2(n) == IF n <= 0 THEN 1 ELSE 2 * Pow2(n - 1)

\* np.exp(x), x in units of ln 2
exp(x) == Pow2(x + FracBits)

\* round half to even of num/den, num >= 0
RoundHalfEven(num, den) ==
    LET q == num \div den
        r == num % den
    IN  IF 2 * r > den THEN q + 1
        ELSE IF 2 * r < den THEN q
        ELSE IF q % 2 = 0 THEN q ELSE q + 1

\* .round({...: 2}) of an exp value: hundredths
round2(x) == RoundHalfEven(100 * x, Pow2(FracBits))

\* .round({"p": 4}) of a p-value held in units of 10^-5: units of 10^-4
round4(p) == RoundHalfEven(p, 10)

\* what ConditionalLogit(...).fit(disp=False) returns: params (units of ln 2),
\* bse (units of ln 2 / 1.96, so that 1.96*se is se units of ln 2) and
\* pvalues (units of 10^-5)
FitOutcomes ==
    { [b |-> -9, se |-> 3, p |->   301],
      [b |-> -1, se |-> 3, p |-> 64996],
      [b |->  2, se |-> 1, p |-> 64999] }

\* mutant of CI_low: the half-width added instead of subtracted
CI_low_plus(b, se) == exp(b + se)

\* np.exp(b - 1.96*se)
CI_low(b, se) == exp(b - se)

\* np.exp(b + 1.96*se)
CI_high(b, se) == exp(b + se)

Label(v, n) == PREDICTORS(v)[n][2]
Key(v, n) == PREDICTORS(v)[n][1]

\* the row main appends for a fit (variant A: the dict fit_clogit returns;
\* variant B: [label, OR, lo, hi, p, n] under the DataFrame's column names)
ResultRow(v, n, o, d) ==
    IF v = "A"
    THEN [Predictor |-> Label(v, n), OR |-> exp(o.b), CI_low |-> CI_low(o.b, o.se),
          CI_high |-> CI_high(o.b, o.se), p |-> o.p, Strata |-> StrataCount(d)]
    ELSE [Predictor |-> Label(v, n), OR |-> exp(o.b), CI_low |-> CI_low(o.b, o.se),
          CI_high |-> CI_high(o.b, o.se), p |-> o.p, Triplets |-> StrataCount(d)]

\* the count column of a result row
Count(row) == IF "Strata" \in DOMAIN row THEN row.Strata ELSE row.Triplets

\* DataFrame.round({"OR":2,"CI_low":2,"CI_high":2,"p":4})
RoundRow(row) ==
    [c \in DOMAIN row |->
        CASE c \in {"OR", "CI_low", "CI_high"} -> round2(row[c])
          [] c = "p"                            -> round4(row[c])
          [] OTHER                              -> row[c]]

Round(t) == [n \in DOMAIN t |-> RoundRow(t[n])]

\* sort_values("p") (default kind="quicksort", not a stable sort): any
\* ascending arrangement of the rows
sort_values(t) ==
    { [n \in DOMAIN t |-> t[f[n]]] :
        f \in { g \in [DOMAIN t -> DOMAIN t] :
                  /\ \A a, b \in DOMAIN t : a # b => g[a] # g[b]
                  /\ \A a, b \in DOMAIN t : a < b => t[g[a]]["p"] <= t[g[b]]["p"] } }

----------------------------------------------------------------------------
(* The run of main(fp_in, fp_out) *)

Sizings == {n \in [StratumIds -> 0..MaxSize] : \A s \in StratumIds : n[s] \in Sizes(s)}

Outcomes ==
    {cp \in [StratumIds -> {"first", "none", "two", "nanSecond"}] :
        \A s \in StratumIds : cp[s] \in CasePatterns(s)}

Fillings(v) ==
    {pat \in [PatCols(v) -> BinPatterns \cup CTPatterns \cup RCHPatterns] :
        \A c \in PatCols(v) : pat[c] \in PatternsOf(c)}

\* files that lack one column are taken with a plain content
PlainFilling(v) ==
    [c \in PatCols(v) |->
        CASE c = "Combined_treatments" -> "ramp"
          [] c = "RCH_at_baseline"     -> "nanCase"
          [] OTHER                     -> "alt"]

Init ==
    \E v \in {"A", "B"} :
      \E n \in Sizings, cp \in Outcomes, pat \in Fillings(v) :
        \E missing \in {{}} \cup {{c} : c \in InputCols(v)} :
          /\ missing # {} =>
                /\ n[1] \in {2, 3} /\ n[2] \in {0, 3}
                /\ \A s \in StratumIds : cp[s] = "first"
                /\ pat = PlainFilling(v)
          /\ variant = v
          /\ cols = InputCols(v) \ missing
          /\ csv = Table(InputCols(v) \ missing, n, cp, pat)
          /\ df = <<>>
          /\ strata = <<>>
          /\ pc = "load"
          /\ i = 0
          /\ rows = <<>>
          /\ work = <<>>
          /\ fitCalls = <<>>
          /\ modelFits = {}
          /\ out = <<>>
          /\ writes = 0
          /\ err = <<>>

\* an exception leaves main: nothing more runs
Raise(e) ==
    /\ pc' = "failed"
    /\ err' = e

\* df = load_clean(fp_in)
LoadClean ==
    /\ pc = "load"
    /\ IF "Combined_treatments" \notin cols
       THEN Raise(<<"KeyError", "Combined_treatments">>) /\ UNCHANGED df
       ELSE IF "RCH_at_baseline" \notin cols
       THEN Raise(<<"KeyError", "RCH_at_baseline">>) /\ UNCHANGED df
       ELSE /\ df' = load_clean(csv)
            /\ pc' = "filter"
            /\ UNCHANGED err
    /\ UNCHANGED <<variant, cols, csv, strata, i, rows, work, fitCalls,
                   modelFits, out, writes>>

\* strata = keep_strata(df)  /  trip = triplets_only(df)
StratumFilter ==
    /\ pc = "filter"
    /\ IF "match_id" \notin cols
       THEN Raise(<<"KeyError", "match_id">>) /\ UNCHANGED <<strata, i>>
       ELSE IF "case" \notin cols /\ FilterReadsCase(df)
       THEN Raise(<<"KeyError", "case">>) /\ UNCHANGED <<strata, i>>
       ELSE /\ strata' = IF "case" \notin cols THEN <<>>
                         ELSE IF variant = "A" THEN keep_strata(df)
                         ELSE triplets_only(df)
            /\ pc' = "loop"
            /\ i' = 1
            /\ UNCHANGED err
    /\ UNCHANGED <<variant, cols, csv, df, rows, work, fitCalls, modelFits,
                   out, writes>>

Record(f, k, x) == [c \in DOMAIN f \cup {k} |-> IF c = k THEN x ELSE f[c]]

\* one iteration of the loop: res = fit_clogit(strata, col, label);
\* if res: rows.append(res)
FitClogit ==
    /\ pc = "loop"
    /\ i <= Len(PREDICTORS(variant))
    /\ LET pred == Key(variant, i)
           d    == Dropna(strata, pred)
       IN  /\ fitCalls' = Append(fitCalls, pred)
           /\ IF ~({"case", "match_id", pred} \subseteq FrameCols(cols))
              THEN \* df[[...]] on a column the frame lacks
                   /\ Raise(<<"KeyError",
                              CHOOSE c \in {"case", "match_id", pred} :
                                  c \notin FrameCols(cols)>>)
                   /\ UNCHANGED <<strata, i, rows, work, modelFits>>
              ELSE /\ work' = Record(work, pred, d)
                   /\ strata' = TableAfterFit(strata, pred)
                   /\ IF ~Varies(d, pred)
                      THEN \* return None
                           /\ i' = i + 1
                           /\ UNCHANGED <<pc, err, rows, modelFits>>
                      ELSE /\ modelFits' = modelFits \cup {pred}
                           /\ \/ \E o \in FitOutcomes :
                                    /\ rows' = Append(rows, ResultRow(variant, i, o, d))
                                    /\ i' = i + 1
                                    /\ UNCHANGED <<pc, err>>
                              \/ \* the fit raises
                                 /\ Raise(<<"FitError", pred>>)
                                 /\ UNCHANGED <<i, rows>>
    /\ UNCHANGED <<variant, cols, csv, df, out, writes>>

\* the table is built, rounded, (variant A) sorted, and written
WriteTable ==
    /\ pc = "loop"
    /\ i > Len(PREDICTORS(variant))
    /\ IF variant = "A" /\ rows = <<>>
       THEN \* pd.DataFrame([]) has no column "p": sort_values raises
            /\ Raise(<<"KeyError", "p">>)
            /\ UNCHANGED <<out, writes>>
       ELSE /\ out' \in (IF variant = "A" THEN sort_values(Round(rows))
                         ELSE {Round(rows)})
            /\ writes' = writes + 1
            /\ pc' = "done"
            /\ UNCHANGED err
    /\ UNCHANGED <<variant, cols, csv, df, strata, i, rows, work, fitCalls,
                   modelFits>>

Next == LoadClean \/ StratumFilter \/ FitClogit \/ WriteTable

Spec == Init /\ [][Next]_vars

\* the runs of clogit_triplets_v10.py alone
InitB == Init /\ variant = "B"

SpecB == InitB /\ [][Next]_vars

----------------------------------------------------------------------------
(* Properties *)

Terminal == pc \in {"done", "failed"}

\* the stratum filter has returned
Filtered == i >= 1 /\ "case" \in cols

\* rows of a frame that belong to stratum g, by index label
Members(frame, g) == {r["index"] : r \in {x \in Range(frame) : x["match_id"] = g}}

\* stratum g of the loaded table is a well-formed triplet
WellFormed(g) ==
    /\ Cardinality(Members(df, g)) = 3
    /\ Cardinality({r \in Range(df) : r["match_id"] = g /\ r["case"] = 1}) = 1

Retained == {r["match_id"] : r \in Range(strata)}

\* C1: the stratum filter keeps a stratum only if it has exactly 3 rows and
\* exactly 1 row with outcome flag 1; a stratum failing either condition is
\* dropped in full, a retained one is kept whole, and no row of an excluded
\* stratum is in the working subset of any predictor.
C1_OnlyWellFormedStrataRetained ==
    Filtered =>
        /\ \A g \in Retained :
              /\ g \in GroupKeys(df)
              /\ WellFormed(g)
              /\ Members(strata, g) = Members(df, g)
        /\ \A g \in GroupKeys(df) : ~WellFormed(g) => Members(strata, g) = {}
        /\ \A r \in Range(strata) : r \in Range(df)
        /\ \A q \in DOMAIN work : \A r \in Range(work[q]) :
              /\ r["match_id"] \in GroupKeys(df)
              /\ WellFormed(r["match_id"])

\* a triplet was retained beside a stratum of 3 rows with 2 cases, a row
\* without identifier was dropped, and a predictor's working subset was built
C1_Witness ==
    /\ Filtered
    /\ 2 \in Retained
    /\ Cardinality(Members(df, 1)) = 3 /\ ~WellFormed(1) /\ 1 \notin Retained
    /\ \E q \in DOMAIN work : work[q] # <<>>

\* values predictor q takes in stratum g among the rows of the filtered
\* table that are complete in outcome, identifier and q
ValuesIn(g, q) ==
    {r[q] : r \in {x \in Range(strata) :
                      /\ x["match_id"] = g
                      /\ x["case"] # NaN /\ x["match_id"] # NaN /\ x[q] # NaN}}

\* no retained stratum holds two distinct values of q
ZeroVariance(q) == \A g \in Retained : Cardinality(ValuesIn(g, q)) <= 1

LabelOf(q) ==
    Label(variant, CHOOSE n \in 1..Len(PREDICTORS(variant)) : Key(variant, n) = q)

\* C5: a predictor with zero within-stratum variance across all retained
\* strata (after listwise deletion) gets no model fit, no collected row and
\* no row of the output table.
C5_ZeroVarianceNeverEmitted ==
    \A q \in DOMAIN work :
        ZeroVariance(q) =>
            /\ q \notin modelFits
            /\ \A n \in DOMAIN rows : rows[n].Predictor # LabelOf(q)
            /\ \A n \in DOMAIN out : out[n].Predictor # LabelOf(q)

\* the table was written with a fitted predictor, while another predictor,
\* with rows left in its working subset, had no variance and is not in it
C5_Witness ==
    /\ pc = "done"
    /\ out # <<>>
    /\ \E q \in DOMAIN work :
          /\ work[q] # <<>>
          /\ ZeroVariance(q)
          /\ \A n \in DOMAIN out : out[n].Predictor # LabelOf(q)

\* the raw Combined_treatments cell of row n, text cells read as missing
RawCount(n) ==
    LET x == csv[n]["Combined_treatments"]
    IN  IF x \in {StrNa, StrBad} THEN NaN ELSE x

\* C6 as stated: treat_cat is missing if x is missing, 0 if x = 0,
\* 1 if 0 < x <= 2, 2 if x > 2, for every numeric x.
C6_Original ==
    \A n \in DOMAIN df :
        LET x == RawCount(n)
            y == df[n]["treat_cat"]
        IN  \/ x = NaN /\ y = NaN
            \/ x # NaN /\ x = 0 /\ y = 0
            \/ x # NaN /\ 0 < x /\ x <= 2 * Scale /\ y = 1
            \/ x # NaN /\ x > 2 * Scale /\ y = 2

\* C6 (amended): treat_cat of a row is a function of that row's
\* Combined_treatments alone: missing if x is missing, 0 if x = 0, 1 if
\* x # 0 and x <= 2 (every negative value included), 2 if x > 2.
C6_Cat3Rule ==
    \A n \in DOMAIN df :
        LET x == RawCount(n)
            y == df[n]["treat_cat"]
        IN  \/ x = NaN /\ y = NaN
            \/ x # NaN /\ x = 0 /\ y = 0
            \/ x # NaN /\ x # 0 /\ x <= 2 * Scale /\ y = 1
            \/ x # NaN /\ x > 2 * Scale /\ y = 2

\* a loaded table holds a negative count bucketed as 1, a fractional count
\* above 2 bucketed as 2, and a text cell bucketed as missing
C6_Witness ==
    /\ \E n \in DOMAIN df : RawCount(n) # NaN /\ RawCount(n) < 0 /\ df[n]["treat_cat"] = 1
    /\ \E n \in DOMAIN df : RawCount(n) = 2 * Scale + 1 /\ df[n]["treat_cat"] = 2
    /\ \E n \in DOMAIN df : csv[n]["Combined_treatments"] = StrBad /\ df[n]["treat_cat"] = NaN

\* C7 as stated: in every row of the written table (after rounding) OR,
\* CI_low and CI_high are strictly positive and CI_low <= OR <= CI_high.
C7_Original ==
    pc = "done" =>
        \A n \in DOMAIN out :
            /\ out[n].OR > 0 /\ out[n].CI_low > 0 /\ out[n].CI_high > 0
            /\ out[n].CI_low <= out[n].OR /\ out[n].OR <= out[n].CI_high

\* C7 (amended): for a fit that returns a finite coefficient and a finite
\* standard error >= 0, OR, CI_low and CI_high are non-negative after
\* rounding (a value below 0.005 is written as 0.0) and
\* CI_low <= OR <= CI_high, in the collected rows and in the written table.
C7_NonNegativeAndOrdered ==
    \A t \in {rows, out} : \A n \in DOMAIN t :
        /\ t[n].OR >= 0 /\ t[n].CI_low >= 0 /\ t[n].CI_high >= 0
        /\ t[n].CI_low <= t[n].OR /\ t[n].OR <= t[n].CI_high

\* the written table has a row whose odds ratio was rounded to 0.0, and a
\* row with three distinct positive values
C7_Witness ==
    /\ pc = "done"
    /\ \E n \in DOMAIN out : out[n].OR = 0 /\ out[n].CI_high > 0
    /\ \E n \in DOMAIN out : 0 < out[n].CI_low /\ out[n].CI_low < out[n].OR
                             /\ out[n].OR < out[n].CI_high

\* the predictor key of a result row
KeyOf(row) ==
    Key(variant, CHOOSE n \in 1..Len(PREDICTORS(variant)) :
                     Label(variant, n) = row.Predictor)

\* identifiers of the strata with a row complete in outcome, identifier, q
Contributing(q) ==
    {g \in Retained :
        \E r \in Range(strata) :
            /\ r["match_id"] = g
            /\ r["case"] # NaN /\ r["match_id"] # NaN /\ r[q] # NaN}

\* distinct stratum identifiers of the file
RawIds == {r["match_id"] : r \in Range(csv)} \ {NaN}

\* C8: the strata-count of a predictor is the number of distinct stratum
\* identifiers with rows left after its listwise deletion; it is at most
\* the number of retained strata, hence strictly less than the number of
\* distinct identifiers of the file when the file has a malformed stratum
\* (not 3 rows, or not exactly one case).
C8_StrataCount ==
    \A t \in {rows, out} : \A n \in DOMAIN t :
        /\ Count(t[n]) = Cardinality(Contributing(KeyOf(t[n])))
        /\ Count(t[n]) <= Cardinality(Retained)
        /\ (\E g \in RawIds : ~WellFormed(g))
              => Count(t[n]) < Cardinality(RawIds)

\* a written row counts one stratum where two were retained, and another
\* file has a stratum of 2 rows beside the one counted
C8_Witness ==
    /\ pc = "done"
    /\ \E n \in DOMAIN out :
          \/ Count(out[n]) = 1 /\ Cardinality(Retained) = 2
          \/ /\ Count(out[n]) = 1
             /\ Cardinality(RawIds) = 2
             /\ \E g \in RawIds : Cardinality(Members(csv, g)) = 2

\* the filtered table, as the stratum filter returned it
FilterOutput == IF variant = "A" THEN keep_strata(df) ELSE triplets_only(df)

Complete(r, q) == r["case"] # NaN /\ r["match_id"] # NaN /\ r[q] # NaN

\* C9: listwise deletion is predictor-local: after any number of fits the
\* filtered table is the one the stratum filter returned, and the working
\* subset of each predictor holds every row of it that is complete for that
\* predictor, whatever rows earlier predictors dropped.
C9_FilteredTableUnchanged ==
    Filtered =>
        /\ strata = FilterOutput
        /\ \A q \in DOMAIN work :
              {r["index"] : r \in Range(work[q])}
                  = {r["index"] : r \in {x \in Range(FilterOutput) : Complete(x, q)}}

\* two predictors were fitted in turn, and a row dropped for the first is
\* in the working subset of the second
C9_Witness ==
    /\ Len(fitCalls) >= 2
    /\ {fitCalls[1], fitCalls[2]} \subseteq DOMAIN work
    /\ \E r \in Range(work[fitCalls[2]]) :
          r["index"] \notin {x["index"] : x \in Range(work[fitCalls[1]])}

----------------------------------------------------------------------------
(* Statements the code does not meet *)

\* position of a result row's predictor in the registry
Position(row) ==
    CHOOSE n \in 1..Len(PREDICTORS(variant)) : Label(variant, n) = row.Predictor

\* C2: the written table is sorted ascending by p-value, ties in registry
\* order, in both variants.
C2_SortedByP ==
    pc = "done" =>
        \A a, b \in DOMAIN out :
            a < b =>
                \/ out[a].p < out[b].p
                \/ out[a].p = out[b].p /\ Position(out[a]) < Position(out[b])

\* C3: with a complete file, a predictor's failure (no variance, or a fit
\* that raises) never aborts the batch: main ends having processed every
\* predictor of the registry and written the table of those that fitted.
C3_BatchNeverAborted ==
    (Terminal /\ cols = InputCols(variant) /\ fitCalls # <<>>) =>
        /\ pc = "done"
        /\ Len(fitCalls) = Len(PREDICTORS(variant))
        /\ writes = 1
        /\ {out[n].Predictor : n \in DOMAIN out}
              = {rows[n].Predictor : n \in DOMAIN rows}

\* C4: when the file lacks a required column, fit_clogit is never invoked
\* and the run fails.
C4_MissingColumnBeforeFit ==
    cols # InputCols(variant) =>
        /\ fitCalls = <<>>
        /\ Terminal => pc = "failed"

\* C10: when loading succeeds and every predictor is uninformative, main
\* completes and writes the table once, empty, in both variants.
C10_EmptyTableWritten ==
    (/\ Terminal
     /\ cols = InputCols(variant)
     /\ Len(fitCalls) = Len(PREDICTORS(variant))
     /\ modelFits = {}) =>
        /\ pc = "done"
        /\ writes = 1
        /\ out = <<>>

====
